---- MODULE Spec2Model ----
(***************************************************************************)
(* Model of the Bluesky MCP server (src/src/bluesky/index.ts).             *)
(*                                                                         *)
(* main() reads the environment, exchanges handle and password for an      *)
(* access token (createSession), builds a BlueskyClient, registers the     *)
(* call-tool and list-tools handlers and connects the stdio transport.     *)
(* Every tool call runs the call-tool handler: it issues one fetch and     *)
(* wraps the parsed body, or the error it caught, in a text envelope.      *)
(*                                                                         *)
(* Conventions.  A JavaScript object is a function from its own keys to    *)
(* values; a key that is not in the DOMAIN reads as undefined.  An error   *)
(* message, and an "error" field of a remote body, is a sequence of string *)
(* fragments, so that a template literal is a concatenation (\o).  The     *)
(* decimal text of a number in a query string is written as the number.    *)
(***************************************************************************)
EXTENDS Integers, Sequences, FiniteSets, TLC

\* ---------------------------------------------------------------- bounds
\* Number of tool calls that can be in flight or answered in one run.
MaxCalls == 2
\* Largest ordinary limit a caller supplies (1000 is supplied as well).
MaxLimit == 101

\* ------------------------------------------------------ program constants
MAX_LIMIT == 100
POSTS_HANDLER_DEFAULT == 10
POSTS_DEFAULT == 10
TIMELINE_DEFAULT == 50
SEARCH_DEFAULT == 25
INDENT == 2

VARIABLES
    env,        \* process.env: the set of variables that are set and non-empty
    pc,         \* position of main(): start, createSession, connecting, running, exited
    exitCode,   \* argument of process.exit, -1 while the process lives
    fatal,      \* message of the error logged as "Fatal error in main():"
    session,    \* what the createSession fetch produced
    client,     \* the BlueskyClient instance: [made, headers, PDSHost]
    handlers,   \* request schemas for which server.setRequestHandler was called
    calls,      \* per call id: the handler invocation, its fetch and its result
    listed      \* result of the last list-tools request

vars == <<env, pc, exitCode, fatal, session, client, handlers, calls, listed>>

CallIds == 1..MaxCalls

\* ------------------------------------------------------ JavaScript values
Empty == [k \in {} |-> ""]

Has(obj, k) == k \in DOMAIN obj

\* a property read: <<>> when it is undefined, <<value>> otherwise
Prop(obj, k) == IF Has(obj, k) THEN <<obj[k]>> ELSE <<>>

IsUndefined(v) == Len(v) = 0

\* truthiness of a string (undefined and "" are falsy) and of a number
\* (undefined and 0 are falsy)
TruthyStr(v) == Len(v) = 1 /\ v[1] # ""
TruthyNum(v) == Len(v) = 1 /\ v[1] # 0

\* v || d
OrElse(v, d) == IF TruthyNum(v) THEN v[1] ELSE d
OrElseStr(v, d) == IF TruthyStr(v) THEN v[1] ELSE d

\* v ?? d, which is also a parameter default (param = d): d only for undefined
Coalesce(v, d) == IF IsUndefined(v) THEN d ELSE v[1]

\* `${v}` of a string: the text "undefined" when v is undefined
Template(v) == IF IsUndefined(v) THEN "undefined" ELSE v[1]

Min(a, b) == IF a < b THEN a ELSE b

\* obj, with key k set to the value v when v is defined (params.append under
\* an if, and JSON.stringify, which leaves out undefined properties)
Put(obj, k, v) == IF IsUndefined(v) THEN obj ELSE (k :> v[1]) @@ obj

\* JSON.stringify(value, null, indent), kept as what it parses back to
Stringify(value, indent) == [json |-> value, indent |-> indent]


\* ------------------------------------------------------- tool descriptors
\* name, required fields and declared defaults of each inputSchema
getUserProfileTool ==
    [name |-> "bluesky_get_user_profile", required |-> {"handle"}, defaults |-> Empty]
getUserPostsTool ==
    [name |-> "bluesky_get_user_posts", required |-> {"handle"},
     defaults |-> [limit |-> 10]]
createRecordTool ==
    [name |-> "bluesky_create_record", required |-> {"repo", "collection", "record"},
     defaults |-> Empty]
getTimelineTool ==
    [name |-> "bluesky_get_timeline", required |-> {}, defaults |-> [limit |-> 50]]
searchPostsTool ==
    [name |-> "bluesky_search_posts", required |-> {"q"},
     defaults |-> [sort |-> "latest", limit |-> 10]]

\* the tools of the list-tools response
ToolList == <<getUserProfileTool, getUserPostsTool, createRecordTool,
              getTimelineTool, searchPostsTool>>

\* ------------------------------------------------------------ the client
NoClient == [made |-> FALSE, headers |-> Empty, PDSHost |-> ""]

\* new BlueskyClient(accessJwt, PDSHost)
NewClient(accessJwt, PDSHost) ==
    [made |-> TRUE,
     headers |-> [Authorization |-> <<"Bearer ", Template(accessJwt)>>,
                  ContentType |-> "application/json"],
     PDSHost |-> PDSHost]

NoHttp == [method |-> "", host |-> "", path |-> "", query |-> Empty,
           body |-> Empty, headers |-> Empty]

\* fetch(`${this.PDSHost}/xrpc/<path>?<query>`, {method, headers, body})
Fetch(method, path, query, body) ==
    [method |-> method, host |-> client.PDSHost, path |-> path,
     query |-> query, body |-> body, headers |-> client.headers]

\* Clamp, were the limit passed on as it came
ClampNone(limit) == limit

\* Math.min(limit, 100)
Clamp(limit) == Min(limit, MAX_LIMIT)

getUserProfile(handle) ==
    Fetch("GET", "app.bsky.actor.getProfile", ("actor" :> Template(handle)), Empty)

getUserPosts(handle, limit) ==
    Fetch("GET", "app.bsky.feed.getAuthorFeed",
          ("actor" :> Template(handle))
              @@ ("limit" :> Clamp(Coalesce(limit, POSTS_DEFAULT))),
          Empty)

createRecord(repo, collection, record, rkey, validate, swapCommit) ==
    Fetch("POST", "com.atproto.repo.createRecord", Empty,
          Put(Put(Put(Put(Put(("validate" :> Coalesce(validate, TRUE)),
              "repo", repo), "collection", collection), "record", record),
              "rkey", rkey), "swapCommit", swapCommit))

\* a parameter appended only when it is truthy
AppendParam(params, k, v) == IF TruthyStr(v) THEN (k :> v[1]) @@ params ELSE params

\* getTimeline, with the default of getUserPosts in place of its own
getTimelinePostsDefault(algorithm, limit, cursor) ==
    Fetch("GET", "app.bsky.feed.getTimeline",
          AppendParam(AppendParam(("limit" :> Clamp(Coalesce(limit, POSTS_DEFAULT))),
                        "algorithm", algorithm), "cursor", cursor),
          Empty)

getTimeline(algorithm, limit, cursor) ==
    Fetch("GET", "app.bsky.feed.getTimeline",
          AppendParam(AppendParam(("limit" :> Clamp(Coalesce(limit, TIMELINE_DEFAULT))),
                        "algorithm", algorithm), "cursor", cursor),
          Empty)

SearchFilters == <<"since", "until", "mentions", "author", "lang", "domain",
                   "url", "cursor">>

RECURSIVE AppendAll(_, _, _)
AppendAll(params, query, keys) ==
    IF keys = <<>> THEN params
    ELSE AppendAll(AppendParam(params, Head(keys), Prop(query, Head(keys))),
                   query, Tail(keys))

\* tag.join(","): the tags with a comma between two of them
RECURSIVE Join(_)
Join(tag) ==
    IF Len(tag) <= 1 THEN tag ELSE <<Head(tag), ",">> \o Join(Tail(tag))

searchPosts(query) ==
    Fetch("GET", "app.bsky.feed.searchPosts",
          AppendAll(
              (IF Has(query, "tag") THEN ("tag" :> Join(query.tag)) ELSE Empty)
                  @@ ("q" :> Template(Prop(query, "q")))
                  @@ ("sort" :> OrElseStr(Prop(query, "sort"), "latest"))
                  @@ ("limit" :> Clamp(OrElse(Prop(query, "limit"), SEARCH_DEFAULT))),
              query, SearchFilters),
          Empty)

\* ------------------------------------------------------- tool-call handler
NoRequest == [name |-> "", hasArgs |-> FALSE, arguments |-> Empty]
NoResponse == [arrived |-> FALSE, ok |-> FALSE, parsable |-> FALSE]
NoEnvelope == [content |-> <<>>]

\* { content: [{ type: "text", text }] }
Envelope(text) == [content |-> <<[type |-> "text", text |-> text]>>]

\* the successful return of a case of the switch
SuccessEnvelope(response) == Envelope(Stringify(response, INDENT))

\* the return of the catch block
ErrorEnvelope(message) == Envelope(Stringify([error |-> message], 0))

\* !request.params.arguments
ArgumentsMissing(request) == ~request.hasArgs

\* UnknownToolMessage, were the name left out of the message
UnknownToolMessageNoName(name) == <<"Unknown tool">>

\* `Unknown tool: ${request.params.name}`
UnknownToolMessage(name) == <<"Unknown tool: ">> \o <<name>>

Throw(message) == [throws |-> TRUE, error |-> message, http |-> NoHttp]
Await(http) == [throws |-> FALSE, error |-> <<>>, http |-> http]

\* ValidateOrDefault, were the default given with || in place of ??
ValidateOrTrue(validate) ==
    IF Len(validate) = 1 /\ validate[1] THEN validate[1] ELSE TRUE

\* args.validate ?? true
ValidateOrDefault(validate) == Coalesce(validate, TRUE)

\* Switch, with only the two cases an earlier revision of the handler had
SwitchTwoCases(name, args) ==
    CASE name = "bluesky_get_user_profile" ->
            Await(getUserProfile(Prop(args, "handle")))
      [] name = "bluesky_get_user_posts" ->
            Await(getUserPosts(Prop(args, "handle"),
                               <<OrElse(Prop(args, "limit"), POSTS_HANDLER_DEFAULT)>>))
      [] OTHER ->
            Throw(UnknownToolMessage(name))

\* the switch on request.params.name, up to the fetch of the selected method
Switch(name, args) ==
    CASE name = "bluesky_get_user_profile" ->
            Await(getUserProfile(Prop(args, "handle")))
      [] name = "bluesky_get_user_posts" ->
            Await(getUserPosts(Prop(args, "handle"),
                               <<OrElse(Prop(args, "limit"), POSTS_HANDLER_DEFAULT)>>))
      [] name = "bluesky_create_record" ->
            Await(createRecord(Prop(args, "repo"), Prop(args, "collection"),
                               Prop(args, "record"), Prop(args, "rkey"),
                               <<ValidateOrDefault(Prop(args, "validate"))>>,
                               Prop(args, "swapCommit")))
      [] name = "bluesky_get_timeline" ->
            Await(getTimeline(Prop(args, "algorithm"), Prop(args, "limit"),
                              Prop(args, "cursor")))
      [] name = "bluesky_search_posts" ->
            Await(searchPosts(args))
      [] OTHER ->
            Throw(UnknownToolMessage(name))

\* Dispatch, were the arguments looked at only inside the cases of the switch
DispatchSwitchFirst(request) ==
    IF ArgumentsMissing(request)
          /\ request.name \in {ToolList[i].name : i \in DOMAIN ToolList}
    THEN Throw(<<"No arguments provided">>)
    ELSE Switch(request.name, request.arguments)

\* the body of the try block, up to its first await
Dispatch(request) ==
    IF ArgumentsMissing(request)
    THEN Throw(<<"No arguments provided">>)
    ELSE Switch(request.name, request.arguments)

\* what the remote service sends back for the request of call c
RemoteBody(c, ok) ==
    IF ok THEN ("data" :> c)
    ELSE ("error" :> <<"InvalidRequest">>) @@ ("request" :> c)

\* Catch, were the error rethrown instead of answered
CatchRethrows(message) == [st |-> "rejected", envelope |-> NoEnvelope]

\* the handler's catch block: the call returns the error envelope
Catch(message) == [st |-> "returned", envelope |-> ErrorEnvelope(message)]

\* a case's return statement
Return(response) == [st |-> "returned", envelope |-> SuccessEnvelope(response)]

\* Settle, were the parsed body kept in a field the calls share: a call then
\* returns the body read for the latest call that is still waiting
SettleShared(c, resp) ==
    IF ~resp.arrived THEN Catch(<<"request failed">>)
    ELSE IF ~resp.parsable THEN Catch(<<"invalid json response body">>)
    ELSE Return(RemoteBody(
             CHOOSE d \in CallIds :
                 /\ calls[d].st = "awaiting"
                 /\ \A e \in CallIds : calls[e].st = "awaiting" => e <= d,
             resp.ok))

\* the rest of the handler once fetch has settled with resp: fetch rejects on
\* a network failure, response.json() rejects on a body that does not parse,
\* and the parsed body is returned whatever the status
Settle(c, resp) ==
    IF ~resp.arrived THEN Catch(<<"request failed">>)
    ELSE IF ~resp.parsable THEN Catch(<<"invalid json response body">>)
    ELSE Return(RemoteBody(c, resp.ok))

\* ---------------------------------------------------------------- inputs
Handle == "alice.bsky.social"

\* limits a caller supplies: falsy, ordinary, at and above the maximum
LimitValues == {0, 7, 1000} \cup (MAX_LIMIT..MaxLimit)

WithLimits(args) == {args} \cup {("limit" :> l) @@ args : l \in LimitValues}

FullRecord == [repo |-> Handle, collection |-> "app.bsky.feed.post", record |-> "post"]

Without(obj, k) == [x \in DOMAIN obj \ {k} |-> obj[x]]

ArgumentsOf(name) ==
    CASE name = "bluesky_get_user_profile" -> {Empty, [handle |-> Handle]}
      [] name = "bluesky_get_user_posts" -> {Empty} \cup WithLimits([handle |-> Handle])
      [] name = "bluesky_create_record" ->
            {FullRecord, ("validate" :> TRUE) @@ FullRecord,
             ("validate" :> FALSE) @@ FullRecord,
             ("rkey" :> "3k") @@ ("swapCommit" :> "bafy") @@ FullRecord}
                \cup {Without(FullRecord, k) : k \in DOMAIN FullRecord}
      [] name = "bluesky_get_timeline" ->
            WithLimits(Empty) \cup {[algorithm |-> "reverse-chronological", cursor |-> "c1"],
                                    [algorithm |-> "", limit |-> 7]}
      [] name = "bluesky_search_posts" ->
            {Empty} \cup WithLimits([q |-> "tla"])
                \cup {[q |-> "tla", sort |-> "top"], [q |-> "tla", sort |-> ""],
                      [q |-> "tla", tag |-> <<"a", "b">>, since |-> "2024",
                       lang |-> "", cursor |-> "c1"]}
      [] OTHER -> {Empty, [handle |-> Handle]}

ToolNames == {ToolList[i].name : i \in DOMAIN ToolList}

\* names a caller sends: the listed ones and two that are not
CallNames == ToolNames \cup {"bluesky_delete_record", "get_user_profile"}

AllRequests ==
    {[name |-> n, hasArgs |-> FALSE, arguments |-> Empty] : n \in CallNames}
        \cup UNION {{[name |-> n, hasArgs |-> TRUE, arguments |-> a] :
                        a \in ArgumentsOf(n)} : n \in CallNames}

\* the first call draws from AllRequests; the calls that run beside it draw
\* from these: one that is sent, one that takes a default, one that is refused
CoreRequests ==
    {[name |-> "bluesky_get_user_profile", hasArgs |-> TRUE, arguments |-> [handle |-> Handle]],
     [name |-> "bluesky_get_timeline", hasArgs |-> TRUE, arguments |-> Empty],
     [name |-> "bluesky_search_posts", hasArgs |-> FALSE, arguments |-> Empty]}

RequestsOf(c) == IF c = 1 THEN AllRequests ELSE CoreRequests

\* outcomes of a fetch: rejected, or a response whose body parses or not
Responses ==
    {NoResponse} \cup {[arrived |-> TRUE, ok |-> o, parsable |-> p] : o, p \in BOOLEAN}

NoSession == [arrived |-> FALSE, ok |-> FALSE, parsable |-> FALSE,
              statusText |-> "", data |-> Empty]

SessionBodies ==
    {[accessJwt |-> "jwt-1", refreshJwt |-> "jwt-r"], [accessJwt |-> ""], Empty,
     [error |-> <<"AuthenticationRequired">>],
     [error |-> <<"AccountTakedown">>, accessJwt |-> "jwt-1"]}

SessionResponses ==
    {NoSession}
        \cup {[arrived |-> TRUE, ok |-> o, parsable |-> FALSE,
               statusText |-> IF o THEN "OK" ELSE "Bad Gateway", data |-> Empty] :
                  o \in BOOLEAN}
        \cup {[arrived |-> TRUE, ok |-> o, parsable |-> TRUE,
               statusText |-> IF o THEN "OK" ELSE "Unauthorized", data |-> d] :
                  o \in BOOLEAN, d \in SessionBodies}

\* ----------------------------------------------------------------- main
IdleCall == [st |-> "idle", request |-> NoRequest, http |-> NoHttp,
             response |-> NoResponse, envelope |-> NoEnvelope]

Init ==
    /\ env \in SUBSET {"PDS_HOST", "BSKY_HANDLE", "BSKY_PASSWORD"}
    /\ pc = "start"
    /\ exitCode = -1
    /\ fatal = <<>>
    /\ session = NoSession
    /\ client = NoClient
    /\ handlers = {}
    /\ calls = [c \in CallIds |-> IdleCall]
    /\ listed = <<>>

\* process.env.PDS_HOST || "https://bsky.social"
PDSHost == IF "PDS_HOST" \in env THEN "https://pds.example" ELSE "https://bsky.social"

\* !PDSHost || !userHandle || !password
ConfigMissing == "BSKY_HANDLE" \notin env \/ "BSKY_PASSWORD" \notin env

\* console.error("Fatal error in main():", error); process.exit(1)
Exit(message) ==
    /\ pc' = "exited"
    /\ exitCode' = 1
    /\ fatal' = message

\* SessionFailed, were the status of the response not looked at
SessionFailedBodyOnly(resp) == Has(resp.data, "error")

\* !response.ok || data.error
SessionFailed(resp) == ~resp.ok \/ Has(resp.data, "error")

\* main() up to the fetch of createSession.  createSession repeats the test of
\* ConfigMissing on the values main() has just tested, so its own throw is
\* never taken.
MainStart ==
    /\ pc = "start"
    /\ IF ConfigMissing
       THEN Exit(<<"Missing required environment variables">>)
       ELSE /\ pc' = "createSession"
            /\ UNCHANGED <<exitCode, fatal>>
    /\ UNCHANGED <<env, session, client, handlers, calls, listed>>

\* createSession from its fetch on, and main() up to server.connect
CreateSessionSettle(resp) ==
    /\ pc = "createSession"
    /\ session' = resp
    /\ IF ~resp.arrived
       THEN Exit(<<"request failed">>) /\ UNCHANGED <<client, handlers>>
       ELSE IF ~resp.parsable
       THEN Exit(<<"invalid json response body">>) /\ UNCHANGED <<client, handlers>>
       ELSE IF SessionFailed(resp)
       THEN /\ Exit(<<"Failed to authenticate: ">>
                      \o (IF Has(resp.data, "error") THEN resp.data.error
                          ELSE <<resp.statusText>>))
            /\ UNCHANGED <<client, handlers>>
       ELSE /\ client' = NewClient(Prop(resp.data, "accessJwt"), PDSHost)
            /\ handlers' = {"tools/call", "tools/list"}
            /\ pc' = "connecting"
            /\ UNCHANGED <<exitCode, fatal>>
    /\ UNCHANGED <<env, calls, listed>>

\* await server.connect(transport)
ConnectSettle(connected) ==
    /\ pc = "connecting"
    /\ IF connected
       THEN pc' = "running" /\ UNCHANGED <<exitCode, fatal>>
       ELSE Exit(<<"connect failed">>)
    /\ UNCHANGED <<env, session, client, handlers, calls, listed>>

\* the call-tool handler, from the request to its first await or its return
CallTool(c, request) ==
    /\ pc = "running"
    /\ "tools/call" \in handlers
    /\ calls[c].st = "idle"
    /\ LET d == Dispatch(request)
       IN calls' = [calls EXCEPT ![c] =
              IF d.throws
              THEN [Catch(d.error) @@ @ EXCEPT !.request = request]
              ELSE [@ EXCEPT !.st = "awaiting", !.request = request, !.http = d.http]]
    /\ UNCHANGED <<env, pc, exitCode, fatal, session, client, handlers, listed>>

\* the handler's continuation once its fetch has settled
FetchSettle(c, resp) ==
    /\ pc = "running"
    /\ calls[c].st = "awaiting"
    /\ calls' = [calls EXCEPT ![c] = [Settle(c, resp) @@ @ EXCEPT !.response = resp]]
    /\ UNCHANGED <<env, pc, exitCode, fatal, session, client, handlers, listed>>

\* the list-tools handler
ListTools ==
    /\ pc = "running"
    /\ "tools/list" \in handlers
    /\ listed' = ToolList
    /\ UNCHANGED <<env, pc, exitCode, fatal, session, client, handlers, calls>>

Next ==
    \/ MainStart
    \/ \E resp \in SessionResponses : CreateSessionSettle(resp)
    \/ \E connected \in BOOLEAN : ConnectSettle(connected)
    \/ \E c \in CallIds : \E request \in RequestsOf(c) : CallTool(c, request)
    \/ \E c \in CallIds : \E resp \in Responses : FetchSettle(c, resp)
    \/ ListTools

Spec == Init /\ [][Next]_vars

\* ================================================================ claims
Started(c) == calls[c].st # "idle"
Returned(c) == calls[c].st = "returned"
\* the handler of call c has handed a request to fetch
Issued(c) == calls[c].http.method # ""
Name(c) == calls[c].request.name
Args(c) == calls[c].request.arguments
HasArgs(c) == calls[c].request.hasArgs

\* { content: [ one item of type "text" ] }
WellFormed(e) == Len(e.content) = 1 /\ e.content[1].type = "text"
\* the text is the JSON object { error: <message> }
IsErrorEnvelope(e) ==
    /\ WellFormed(e)
    /\ DOMAIN e.content[1].text.json = {"error"}
    /\ e.content[1].text.indent = 0
ErrorOf(e) == e.content[1].text.json.error

SupportedNames ==
    {"bluesky_get_user_profile", "bluesky_get_user_posts", "bluesky_create_record",
     "bluesky_get_timeline", "bluesky_search_posts"}

\* an error was raised while call c was dispatched
ErrorRaised(c) ==
    \/ ~HasArgs(c)
    \/ Name(c) \notin SupportedNames
    \/ Issued(c) /\ Returned(c)
          /\ (~calls[c].response.arrived \/ ~calls[c].response.parsable)

\* C1: the call-tool handler never rejects: a call that has ended has returned
\* a well-formed envelope of one text item, whatever the request and whatever
\* the outcome of its fetch, and when an error was raised (no arguments,
\* unknown tool, network failure, unparsable body) the text is { error: message }.
C1_NeverThrows ==
    \A c \in CallIds :
        /\ calls[c].st \in {"idle", "awaiting", "returned"}
        /\ Returned(c) => WellFormed(calls[c].envelope)
        /\ Returned(c) /\ ErrorRaised(c) => IsErrorEnvelope(calls[c].envelope)
        /\ Started(c) /\ (~HasArgs(c) \/ Name(c) \notin SupportedNames) => Returned(c)

\* a call whose fetch failed on the network has returned its error envelope,
\* beside a call that was refused before any fetch
C1_Witness ==
    \E c, d \in CallIds :
        /\ Issued(c) /\ Returned(c) /\ ~calls[c].response.arrived
        /\ IsErrorEnvelope(calls[c].envelope)
        /\ ~Issued(d) /\ Returned(d) /\ IsErrorEnvelope(calls[d].envelope)

\* C2: a call without arguments returns the error envelope "No arguments
\* provided" for every tool name, listed or not, get-timeline included, and
\* issues no HTTP request.
C2_NoArguments ==
    \A c \in CallIds :
        Started(c) /\ ~HasArgs(c) =>
            /\ Returned(c)
            /\ IsErrorEnvelope(calls[c].envelope)
            /\ ErrorOf(calls[c].envelope) = <<"No arguments provided">>
            /\ ~Issued(c)

\* a call of an unknown name and a call of a listed tool, both without arguments
C2_Witness ==
    \E c, d \in CallIds :
        /\ Returned(c) /\ ~HasArgs(c) /\ Name(c) \notin SupportedNames
        /\ Returned(d) /\ ~HasArgs(d) /\ Name(d) \in SupportedNames

\* C3: a call with arguments and a name X outside the five supported names
\* returns the error envelope whose message is exactly "Unknown tool: X", and
\* issues no HTTP request.
C3_UnknownTool ==
    \A c \in CallIds :
        Started(c) /\ HasArgs(c) /\ Name(c) \notin SupportedNames =>
            /\ Returned(c)
            /\ IsErrorEnvelope(calls[c].envelope)
            /\ ErrorOf(calls[c].envelope) = <<"Unknown tool: ", Name(c)>>
            /\ ~Issued(c)

C3_Witness ==
    \E c \in CallIds :
        /\ Returned(c) /\ HasArgs(c) /\ Name(c) = "bluesky_delete_record"
        /\ DOMAIN Args(c) = {"handle"}

\* the session exchange came back with a non-success status or an error field
SessionRejected ==
    /\ session.arrived
    /\ ~session.ok \/ (session.parsable /\ Has(session.data, "error"))

\* C4: once main() has found the handle or the password missing, or the
\* session exchange has come back with a non-success status or an error field,
\* the process has exited with a non-zero code, no handler is registered, no
\* tool call was dispatched and no tool request was sent.
C4_StartupFailureFatal ==
    (pc # "start" /\ ConfigMissing) \/ SessionRejected =>
        /\ pc = "exited"
        /\ exitCode > 0
        /\ handlers = {}
        /\ ~client.made
        /\ \A c \in CallIds : ~Started(c) /\ ~Issued(c)

\* a session exchange answered 401 with a body that has no error field
C4_Witness ==
    /\ pc = "exited"
    /\ session.arrived /\ ~session.ok /\ session.parsable
    /\ Has(session.data, "accessJwt") /\ ~Has(session.data, "error")
    /\ fatal = <<"Failed to authenticate: ", "Unauthorized">>

\* the credential the session exchange produced is a non-empty string
CredentialPresent ==
    Has(session.data, "accessJwt") /\ session.data.accessJwt # ""

\* C5: in every state in which a tool call can be dispatched the credential
\* the client holds is non-empty: when the session exchange yields no access
\* credential no client is made and no tool request is issued.
C5_CredentialNonEmpty ==
    /\ client.made => CredentialPresent
    /\ pc = "running" /\ "tools/call" \in handlers => CredentialPresent
    /\ \A c \in CallIds : Issued(c) => CredentialPresent

\* C6: when the remote service answers the request of a tool call with a
\* non-success status, the call returns an error envelope { error: message }
\* and not a success envelope with the body of the response.
C6_NonSuccessIsError ==
    \A c \in CallIds :
        Returned(c) /\ calls[c].response.arrived /\ ~calls[c].response.ok =>
            IsErrorEnvelope(calls[c].envelope)

\* the descriptor the list-tools response has for a name
DescriptorOf(name) ==
    ToolList[CHOOSE i \in DOMAIN ToolList : ToolList[i].name = name]

\* C7: a call of a supported tool whose arguments lack a field its descriptor
\* requires returns an error envelope, and no HTTP request is issued for it.
C7_RequiredFieldsChecked ==
    \A c \in CallIds :
        Started(c) /\ HasArgs(c) /\ Name(c) \in SupportedNames
              /\ ~(DescriptorOf(Name(c)).required \subseteq DOMAIN Args(c)) =>
            /\ ~Issued(c)
            /\ Returned(c)
            /\ IsErrorEnvelope(calls[c].envelope)

LimitPaths ==
    {"app.bsky.feed.getAuthorFeed", "app.bsky.feed.getTimeline",
     "app.bsky.feed.searchPosts"}
LimitNames ==
    {"bluesky_get_user_posts", "bluesky_get_timeline", "bluesky_search_posts"}

\* C8: a call of get-author-posts, get-timeline or search-posts with a limit
\* above 100 sends a request with limit = 100, and no request of these three
\* operations carries a limit above 100.
C8_LimitClamped ==
    \A c \in CallIds :
        /\ Issued(c) /\ calls[c].http.path \in LimitPaths =>
              Has(calls[c].http.query, "limit") /\ calls[c].http.query.limit <= 100
        /\ Started(c) /\ HasArgs(c) /\ Name(c) \in LimitNames
              /\ Has(Args(c), "limit") /\ Args(c).limit > 100 =>
              Issued(c) /\ calls[c].http.path \in LimitPaths
                  /\ calls[c].http.query.limit = 100

\* a search-posts call with limit 1000 has sent limit = 100
C8_Witness ==
    \E c \in CallIds :
        /\ Name(c) = "bluesky_search_posts" /\ HasArgs(c)
        /\ Has(Args(c), "limit") /\ Args(c).limit = 1000
        /\ Issued(c) /\ calls[c].http.query.limit = 100

\* C9: a search-posts call whose arguments have no limit sends limit = 10, the
\* default its descriptor and the README declare, and sort = "latest" when the
\* arguments have no sort.
C9_SearchDefaultLimit ==
    \A c \in CallIds :
        Started(c) /\ HasArgs(c) /\ Name(c) = "bluesky_search_posts" =>
            /\ Issued(c)
            /\ ~Has(Args(c), "limit") =>
                  calls[c].http.query.limit = searchPostsTool.defaults.limit
            /\ ~Has(Args(c), "sort") =>
                  calls[c].http.query.sort = searchPostsTool.defaults.sort

\* C10: a get-author-posts call whose arguments have no limit sends
\* limit = 10, and a get-timeline call whose arguments have no limit sends
\* limit = 50.
C10_DefaultLimits ==
    \A c \in CallIds :
        Started(c) /\ HasArgs(c) /\ ~Has(Args(c), "limit") =>
            /\ Name(c) = "bluesky_get_user_posts" =>
                  Issued(c) /\ calls[c].http.path = "app.bsky.feed.getAuthorFeed"
                      /\ calls[c].http.query.limit = 10
            /\ Name(c) = "bluesky_get_timeline" =>
                  Issued(c) /\ calls[c].http.path = "app.bsky.feed.getTimeline"
                      /\ calls[c].http.query.limit = 50

\* a get-author-posts call and a get-timeline call, both without limit
C10_Witness ==
    \E c, d \in CallIds :
        /\ Name(c) = "bluesky_get_user_posts" /\ HasArgs(c)
        /\ ~Has(Args(c), "limit") /\ Issued(c)
        /\ Name(d) = "bluesky_get_timeline" /\ HasArgs(d)
        /\ ~Has(Args(d), "limit") /\ Issued(d)

\* C11: a create-record call whose arguments have no validate sends
\* validate = true in the body of its POST, and a call with validate = false
\* sends false: the default never replaces a value the caller gave.
C11_ValidateDefault ==
    \A c \in CallIds :
        Started(c) /\ HasArgs(c) /\ Name(c) = "bluesky_create_record" =>
            /\ Issued(c)
            /\ calls[c].http.method = "POST"
            /\ calls[c].http.path = "com.atproto.repo.createRecord"
            /\ Has(calls[c].http.body, "validate")
            /\ calls[c].http.body.validate =
                  (IF Has(Args(c), "validate") THEN Args(c).validate ELSE TRUE)

\* a create-record call without validate has sent validate = true
C11_Witness ==
    \E c \in CallIds :
        /\ Name(c) = "bluesky_create_record" /\ HasArgs(c)
        /\ ~Has(Args(c), "validate")
        /\ Issued(c) /\ calls[c].http.body.validate = TRUE

\* a create-record call with validate = false has sent false
C11_WitnessExplicit ==
    \E c \in CallIds :
        /\ Name(c) = "bluesky_create_record" /\ HasArgs(c)
        /\ Has(Args(c), "validate") /\ Args(c).validate = FALSE
        /\ Issued(c) /\ calls[c].http.body.validate = FALSE

\* the names of a list-tools response, in its order
NamesOf(tools) == [i \in DOMAIN tools |-> tools[i].name]

FixedNames ==
    <<"bluesky_get_user_profile", "bluesky_get_user_posts", "bluesky_create_record",
      "bluesky_get_timeline", "bluesky_search_posts">>

\* call c was answered "Unknown tool"
AnsweredUnknown(c) ==
    /\ Returned(c) /\ ~Issued(c)
    /\ IsErrorEnvelope(calls[c].envelope)
    /\ Head(ErrorOf(calls[c].envelope)) = "Unknown tool: "

\* C12: every list-tools response, whatever tool calls came before it, is the
\* same list of five descriptors, and the listed names are the names the
\* dispatcher accepts: a call (with arguments) of a listed name is handed to
\* its operation and never answered "Unknown tool", and a call of any other
\* name is answered "Unknown tool".
C12_ListMatchesDispatch ==
    Len(listed) # 0 =>
        /\ NamesOf(listed) = FixedNames
        /\ \A c \in CallIds :
              Started(c) /\ HasArgs(c) =>
                  /\ Name(c) \in {listed[i].name : i \in DOMAIN listed} =>
                        Issued(c) /\ ~AnsweredUnknown(c)
                  /\ Name(c) \notin {listed[i].name : i \in DOMAIN listed} =>
                        AnsweredUnknown(c)

\* the tools are listed, a get-timeline call was handed to its operation and
\* has returned, and a call of a name that is not listed was refused
C12_Witness ==
    /\ Len(listed) = 5
    /\ \E c, d \in CallIds :
        /\ HasArgs(c) /\ Name(c) = "bluesky_get_timeline" /\ Returned(c) /\ Issued(c)
        /\ HasArgs(d) /\ Name(d) = "get_user_profile" /\ AnsweredUnknown(d)

\* the endpoint of each supported tool
PathOf(name) ==
    CASE name = "bluesky_get_user_profile" -> "app.bsky.actor.getProfile"
      [] name = "bluesky_get_user_posts" -> "app.bsky.feed.getAuthorFeed"
      [] name = "bluesky_create_record" -> "com.atproto.repo.createRecord"
      [] name = "bluesky_get_timeline" -> "app.bsky.feed.getTimeline"
      [] name = "bluesky_search_posts" -> "app.bsky.feed.searchPosts"

\* the Authorization header made of what the session exchange gave at startup
StartupAuthorization ==
    <<"Bearer ",
      IF Has(session.data, "accessJwt") THEN session.data.accessJwt ELSE "undefined">>

\* call c is a call of a supported tool with arguments
Supported(c) == Started(c) /\ HasArgs(c) /\ Name(c) \in SupportedNames

\* the envelope of call c is the success envelope of the body the remote
\* service sent for the request of call c
CarriesOwnReply(c) ==
    /\ WellFormed(calls[c].envelope)
    /\ calls[c].envelope.content[1].text.indent = 2
    /\ IF calls[c].response.ok
       THEN /\ Has(calls[c].envelope.content[1].text.json, "data")
            /\ calls[c].envelope.content[1].text.json.data = c
       ELSE /\ Has(calls[c].envelope.content[1].text.json, "request")
            /\ calls[c].envelope.content[1].text.json.request = c

\* what holds of the calls in every state
OneRequestOwnReply ==
    \A c \in CallIds :
        /\ Issued(c) <=> Supported(c)
        /\ Supported(c) =>
              /\ calls[c].http.path = PathOf(Name(c))
              /\ calls[c].http.host = client.PDSHost
              /\ calls[c].http.headers.Authorization = StartupAuthorization
              /\ Returned(c) /\ calls[c].response.arrived /\ calls[c].response.parsable
                    => CarriesOwnReply(c)

\* what no step changes: the client and its credential, the request a call has
\* sent (no second request takes its place) and the answer it has returned
NoInterference ==
    /\ client.made => client' = client
    /\ \A c \in CallIds :
          /\ Issued(c) => calls'[c].http = calls[c].http
          /\ Returned(c) => calls'[c] = calls[c]

\* C13: however the running calls interleave and in whatever order their
\* fetches settle, a call of a supported tool with arguments sends one request,
\* that of its own operation, with the bearer header made at startup, which no
\* call changes, and the envelope it returns carries the body sent for its own
\* request, never that of another call.
C13_Isolation == [][NoInterference /\ OneRequestOwnReply']_vars

\* two calls run side by side: the second has returned the reply to its own
\* request while the first, which has sent its request, still waits
C13_Witness ==
    /\ Supported(1) /\ calls[1].st = "awaiting"
    /\ Supported(2) /\ Returned(2) /\ calls[2].response.arrived
    /\ calls[2].response.parsable /\ CarriesOwnReply(2)

\* the same with the first call answered before the second
C13_WitnessOtherOrder ==
    /\ Supported(2) /\ calls[2].st = "awaiting"
    /\ Supported(1) /\ Returned(1) /\ calls[1].response.arrived
    /\ calls[1].response.parsable /\ CarriesOwnReply(1)

====
